---- MODULE Spec2Model ----
(***************************************************************************)
(* Model of agno/tools/browserbase.py: BrowserbaseToolkit, the adapter     *)
(* that keeps a lazily created Browserbase session and a lazily attached   *)
(* Playwright handle (engine, browser, page).                              *)
(*                                                                         *)
(* Python values.  self._playwright, self._browser and self._page are      *)
(* BOOLEAN: TRUE when the attribute holds an object, FALSE when it is      *)
(* None (the code only ever tests them for truth, and never replaces one   *)
(* object by another without passing through None).  self._session is the  *)
(* id of the session held, 0 for None.  A URL is a record [kind, n]; kind  *)
(* "none" is None and kind "empty" is "", the two falsy values of an       *)
(* Optional[str].  Every call into the Browserbase client or into          *)
(* Playwright may raise; which one raises in a given tool call is an input *)
(* of that call.                                                           *)
(***************************************************************************)
EXTENDS Integers, FiniteSets, Sequences, TLC

\* ---------------------------------------------------------------- bounds
\* Sessions client.sessions.create returns over the adapter's life.
MaxCreate == 2
\* Override connect URLs a caller may pass as session_link.
MaxExternal == 1
\* Tool calls each of the two concurrent callers makes.
MaxCalls == 2

\* ---------------------------------------------------------------- values
NoUrl == [kind |-> "none", n |-> 0]
EmptyUrl == [kind |-> "empty", n |-> 0]
ExternalUrl(k) == [kind |-> "external", n |-> k]

\* session.connect_url of the n-th session created.
ConnectUrlOf(n) == [kind |-> "session", n |-> n]

\* Python truthiness of an Optional[str].
Truthy(u) == u.kind \notin {"none", "empty"}

\* The values a caller may pass as session_link: None, "", a URL of a session
\* made elsewhere, or the connect URL of the session the adapter holds.
SessionLinks(session) ==
    {NoUrl, EmptyUrl} \cup {ExternalUrl(k) : k \in 1..MaxExternal}
                      \cup {ConnectUrlOf(n) : n \in {session} \ {0}}

Destinations == {"https://example.com"}

\* Which external calls raise during one tool call.  A call is sequential and
\* leaves its try body at the first call that raises, and _shutdown_browser
\* at the first of close() and stop() that raises: body names the call of the
\* try body that raises if it is reached, td the one of _shutdown_browser.
BodySteps == {"None", "create", "start", "connect", "bind", "action", "title"}
TeardownSteps == {"None", "close", "stop"}
Faults == [body : BodySteps, td : TeardownSteps]

PageOps == {"visit_url", "capture_screenshot", "fetch_page_html"}

\* ----------------------------------------------------------------- state
VARIABLES
    _playwright,    \* self._playwright is not None
    _browser,       \* self._browser is not None
    _page,          \* self._page is not None
    _session,       \* self._session: session id, 0 = None
    _connect_url,   \* self._connect_url
    created,        \* sessions client.sessions.create has returned
    cdp_url,        \* URL the browser of the handle was connected to
    url_from,       \* what assigned self._connect_url last
    res,            \* the Playwright objects made and not yet shut down
    lastOp,         \* what the last tool call did and returned
    run,            \* the current run of successful un-overridden page calls
    ctor,           \* the construction of the adapter: inputs and outcome
    ddg,            \* a DuckDuckGoTools: its settings and its last request
    ode,            \* a call of solve_ode: its arguments and its outcome
    callers,        \* concurrent callers: the call each is in and where
    overlap         \* what the interleaving of the callers has caused

\* The adapter's own state and its trace.
adapter_vars == <<_playwright, _browser, _page, _session, _connect_url,
                  created, cdp_url, url_from, res, lastOp, run>>

vars == <<adapter_vars, ctor, ddg, ode, callers, overlap>>

\* The adapter and its collaborators as one record, threaded through a call.
\* res counts the engines sync_playwright().start() returned on which stop()
\* was never invoked and the browsers connect_over_cdp returned on which
\* close() was never invoked, and tells whether stop() / close() was invoked
\* (and raised) on the engine / browser the adapter references.
\* exc is the exception in flight ("None" = none); the fields after it
\* trace the call: the exception first raised, the status returned, the
\* calls of sessions.create and of sync_playwright().start(), whether the
\* page action ran and on a page connected to which URL, and the session
\* reference and connect URL around the call of _shutdown_browser.
Self ==
    [playwright |-> _playwright, browser |-> _browser, page |-> _page,
     session |-> _session, connect_url |-> _connect_url,
     created |-> created, cdp_url |-> cdp_url, url_from |-> url_from,
     res |-> res,
     exc |-> "None", original |-> "None", status |-> "None",
     creates |-> 0, starts |-> 0, acted |-> FALSE, acted_url |-> NoUrl,
     visited |-> "None", td_ran |-> FALSE, td_failed |-> "None",
     td_before |-> [session |-> 0, connect_url |-> NoUrl],
     td_after |-> [session |-> 0, connect_url |-> NoUrl]]

\* ------------------------------------------------------- private methods
\* _ensure_active_session that only logs the failure of sessions.create.
_ensure_active_session_swallows(s, f) ==
    IF s.session = 0
    THEN IF f.body = "create"
         THEN [s EXCEPT !.creates = @ + 1]
         ELSE [s EXCEPT !.creates = @ + 1, !.created = @ + 1,
                        !.session = s.created + 1,
                        !.connect_url = ConnectUrlOf(s.created + 1),
                        !.url_from = "session"]
    ELSE s

\* _ensure_active_session: create a session unless one is held; a failure
\* of the provisioning call is logged and re-raised.
_ensure_active_session(s, f) ==
    IF s.session = 0
    THEN IF f.body = "create"
         THEN [s EXCEPT !.creates = @ + 1, !.exc = "create"]
         ELSE [s EXCEPT !.creates = @ + 1, !.created = @ + 1,
                        !.session = s.created + 1,
                        !.connect_url = ConnectUrlOf(s.created + 1),
                        !.url_from = "session"]
    ELSE s

\* Lines 92-95 of _start_browser: start the engine, connect it over CDP to
\* self._connect_url, bind the first page.  Each assignment takes effect
\* only if its call returned.
_start_browser_attach(s, f) ==
    LET started == [s.res EXCEPT !.engines = @ + 1, !.stop_invoked = FALSE]
        connected == [started EXCEPT !.browsers = @ + 1,
                                     !.close_invoked = FALSE]
    IN
    IF f.body = "start"
    THEN [s EXCEPT !.starts = @ + 1, !.exc = "start"]
    ELSE IF f.body = "connect"
    THEN [s EXCEPT !.starts = @ + 1, !.playwright = TRUE, !.res = started,
                   !.exc = "connect"]
    ELSE IF f.body = "bind"
    THEN [s EXCEPT !.starts = @ + 1, !.playwright = TRUE, !.browser = TRUE,
                   !.res = connected,
                   !.cdp_url = s.connect_url, !.exc = "bind"]
    ELSE [s EXCEPT !.starts = @ + 1, !.playwright = TRUE, !.browser = TRUE,
                   !.res = connected,
                   !.cdp_url = s.connect_url, !.page = TRUE]

\* _start_browser without the "if not self._playwright" test: every call
\* starts an engine and connects again.
_start_browser_always_attaches(s, session_url, f) ==
    LET s1 == IF Truthy(session_url)
              THEN [s EXCEPT !.connect_url = session_url,
                             !.url_from = "override"]
              ELSE IF ~Truthy(s.connect_url)
              THEN _ensure_active_session(s, f)
              ELSE s
    IN  IF s1.exc # "None" THEN s1 ELSE _start_browser_attach(s1, f)

\* _start_browser that makes sure of a session before it looks at
\* session_url.
_start_browser_always_ensures(s, session_url, f) ==
    LET s0 == _ensure_active_session(s, f)
        s1 == IF s0.exc # "None" THEN s0
              ELSE IF Truthy(session_url)
              THEN [s0 EXCEPT !.connect_url = session_url,
                              !.url_from = "override"]
              ELSE s0
    IN  IF s1.exc # "None" THEN s1
        ELSE IF ~s1.playwright THEN _start_browser_attach(s1, f)
        ELSE s1

\* _start_browser(session_url).
_start_browser(s, session_url, f) ==
    LET s1 == IF Truthy(session_url)
              THEN [s EXCEPT !.connect_url = session_url,
                             !.url_from = "override"]
              ELSE IF ~Truthy(s.connect_url)
              THEN _ensure_active_session(s, f)
              ELSE s
    IN  IF s1.exc # "None" THEN s1
        ELSE IF ~s1.playwright THEN _start_browser_attach(s1, f)
        ELSE s1

\* self._browser.close() was invoked on the browser referenced; kept tells
\* whether the reference stays (the call raised).
CloseInvoked(r, kept) ==
    [r EXCEPT !.browsers = IF r.close_invoked THEN @ ELSE @ - 1,
              !.close_invoked = kept]

\* self._playwright.stop() was invoked on the engine referenced.
StopInvoked(r, kept) ==
    [r EXCEPT !.engines = IF r.stop_invoked THEN @ ELSE @ - 1,
              !.stop_invoked = kept]

\* _shutdown_browser that drops the engine reference without stop().
_shutdown_browser_skips_stop(s, f) ==
    LET s1 == IF s.browser
              THEN IF f.td = "close"
                   THEN [s EXCEPT !.res = CloseInvoked(@, TRUE),
                                  !.exc = "close"]
                   ELSE [s EXCEPT !.res = CloseInvoked(@, FALSE),
                                  !.browser = FALSE]
              ELSE s
    IN  IF s1.exc # "None" THEN s1
        ELSE [s1 EXCEPT !.playwright = FALSE, !.page = FALSE,
                        !.res.stop_invoked = FALSE, !.cdp_url = NoUrl]

\* _shutdown_browser that also drops the session reference and connect URL.
_shutdown_browser_drops_session(s, f) ==
    LET s1 == IF s.browser
              THEN IF f.td = "close"
                   THEN [s EXCEPT !.res = CloseInvoked(@, TRUE),
                                  !.exc = "close"]
                   ELSE [s EXCEPT !.res = CloseInvoked(@, FALSE),
                                  !.browser = FALSE]
              ELSE s
        s2 == IF s1.exc # "None" THEN s1
              ELSE IF s1.playwright
              THEN IF f.td = "stop"
                   THEN [s1 EXCEPT !.res = StopInvoked(@, TRUE),
                                   !.exc = "stop"]
                   ELSE [s1 EXCEPT !.res = StopInvoked(@, FALSE),
                                   !.playwright = FALSE]
              ELSE s1
    IN  IF s2.exc # "None" THEN s2
        ELSE [s2 EXCEPT !.page = FALSE, !.cdp_url = NoUrl, !.session = 0,
                        !.connect_url = NoUrl, !.url_from = "init"]

\* _shutdown_browser: close the browser, stop the engine, drop the page.  A
\* raising close() or stop() leaves the method at that line.  Once the page
\* reference is dropped no object of the old connection is held.
_shutdown_browser(s, f) ==
    LET s1 == IF s.browser
              THEN IF f.td = "close"
                   THEN [s EXCEPT !.res = CloseInvoked(@, TRUE),
                                  !.exc = "close"]
                   ELSE [s EXCEPT !.res = CloseInvoked(@, FALSE),
                                  !.browser = FALSE]
              ELSE s
        s2 == IF s1.exc # "None" THEN s1
              ELSE IF s1.playwright
              THEN IF f.td = "stop"
                   THEN [s1 EXCEPT !.res = StopInvoked(@, TRUE),
                                   !.exc = "stop"]
                   ELSE [s1 EXCEPT !.res = StopInvoked(@, FALSE),
                                   !.playwright = FALSE]
              ELSE s1
    IN  IF s2.exc # "None" THEN s2
        ELSE [s2 EXCEPT !.page = FALSE, !.cdp_url = NoUrl]

\* The call of _shutdown_browser made by a handler, with its trace: the
\* session reference and connect URL before and after it, and the call of
\* it that raised.
Teardown(s, f) ==
    LET t == _shutdown_browser([s EXCEPT !.exc = "None"], f) IN
    [t EXCEPT !.td_ran = TRUE, !.td_failed = t.exc,
              !.td_before = [session |-> s.session,
                             connect_url |-> s.connect_url],
              !.td_after = [session |-> t.session,
                            connect_url |-> t.connect_url]]

\* "except Exception as exc: self._shutdown_browser(); raise exc" of the
\* three page operations.  An exception of _shutdown_browser leaves the
\* handler before "raise exc" is reached.
PageOpExcept(s, f) ==
    LET t == Teardown(s, f) IN
    IF t.exc # "None"
    THEN [t EXCEPT !.original = s.exc]
    ELSE [t EXCEPT !.original = s.exc, !.exc = s.exc]

\* ------------------------------------------------------------ tool calls
\* visit_url(destination, session_link).
visit_url_call(s, destination, session_link, f) ==
    LET s1 == _start_browser(s, session_link, f)
        s2 == IF s1.exc # "None" \/ ~s1.page THEN s1
              ELSE IF f.body = "action" THEN [s1 EXCEPT !.exc = "goto"]
              ELSE [s1 EXCEPT !.acted = TRUE, !.acted_url = s1.cdp_url,
                              !.visited = destination]
        s3 == IF s2.exc # "None" \/ ~s2.page THEN s2
              ELSE IF f.body = "title" THEN [s2 EXCEPT !.exc = "title"]
              ELSE s2
    IN  IF s3.exc # "None" THEN PageOpExcept(s3, f)
        ELSE [s3 EXCEPT !.status = "success"]

\* capture_screenshot(save_path, session_link, capture_full).
capture_screenshot_call(s, session_link, f) ==
    LET s1 == _start_browser(s, session_link, f)
        s2 == IF s1.exc # "None" \/ ~s1.page THEN s1
              ELSE IF f.body = "action" THEN [s1 EXCEPT !.exc = "screenshot"]
              ELSE [s1 EXCEPT !.acted = TRUE, !.acted_url = s1.cdp_url]
    IN  IF s2.exc # "None" THEN PageOpExcept(s2, f)
        ELSE [s2 EXCEPT !.status = "screenshot_taken"]

\* fetch_page_html(session_link): the page's HTML, "" when no page is bound.
fetch_page_html_call(s, session_link, f) ==
    LET s1 == _start_browser(s, session_link, f)
        s2 == IF s1.exc # "None" \/ ~s1.page THEN s1
              ELSE IF f.body = "action" THEN [s1 EXCEPT !.exc = "content"]
              ELSE [s1 EXCEPT !.acted = TRUE, !.acted_url = s1.cdp_url]
    IN  IF s2.exc # "None" THEN PageOpExcept(s2, f)
        ELSE [s2 EXCEPT !.status = IF s2.page THEN "html" ELSE "empty"]

\* end_session without its except clause: the exception of
\* _shutdown_browser reaches the caller.
end_session_call_reraises(s, f) ==
    LET t == Teardown(s, f) IN
    IF t.exc # "None"
    THEN [t EXCEPT !.original = t.exc]
    ELSE [t EXCEPT !.session = 0, !.connect_url = NoUrl,
                   !.url_from = "init", !.status = "session_closed"]

\* end_session that clears the session reference and connect URL before it
\* calls _shutdown_browser.
end_session_call_clears_first(s, f) ==
    LET t == Teardown([s EXCEPT !.session = 0, !.connect_url = NoUrl,
                                !.url_from = "init"], f) IN
    IF t.exc # "None"
    THEN [t EXCEPT !.original = t.exc, !.exc = "None", !.status = "warning"]
    ELSE [t EXCEPT !.status = "session_closed"]

\* end_session that forgets to clear the connect URL.
end_session_call_keeps_url(s, f) ==
    LET t == Teardown(s, f) IN
    IF t.exc # "None"
    THEN [t EXCEPT !.original = t.exc, !.exc = "None", !.status = "warning"]
    ELSE [t EXCEPT !.session = 0, !.status = "session_closed"]

\* end_session(): the session reference and the connect URL are cleared after
\* _shutdown_browser returned; its exception is caught and reported.
end_session_call(s, f) ==
    LET t == Teardown(s, f) IN
    IF t.exc # "None"
    THEN [t EXCEPT !.original = t.exc, !.exc = "None", !.status = "warning"]
    ELSE [t EXCEPT !.session = 0, !.connect_url = NoUrl,
                   !.url_from = "init", !.status = "session_closed"]

\* ---------------------------------------------------------------- actions
\* The run of successful page calls without override URL that began at the
\* last idle adapter (construction, or an end_session that closed): whether
\* one is going on, whether it has a call yet, and the calls of
\* sessions.create and of sync_playwright().start() made in it.
NextRun(op, session_link, r) ==
    IF op \in PageOps /\ r.exc = "None" /\ ~Truthy(session_link) /\ run.active
    THEN [active |-> TRUE, started |-> TRUE,
          creates |-> run.creates + r.creates,
          starts |-> run.starts + r.starts]
    ELSE IF op = "end_session" /\ r.status = "session_closed"
    THEN [active |-> TRUE, started |-> FALSE, creates |-> 0, starts |-> 0]
    ELSE [active |-> FALSE, started |-> FALSE, creates |-> 0, starts |-> 0]

\* How a tool call ended for its caller: it raised (the exception of
\* sessions.create, or another), or it returned (for end_session, the status
\* it returned).
Outcome(call) ==
    IF call.op = "init" THEN "init"
    ELSE IF call.raised = "create" THEN "create_raised"
    ELSE IF call.raised # "None" THEN "raised"
    ELSE IF call.op = "end_session" THEN call.status
    ELSE "returned"

\* The tool call op(session_link) ended in r: the adapter takes r's fields.
Commit(op, session_link, r) ==
    /\ r.created <= MaxCreate
    /\ _playwright' = r.playwright
    /\ _browser' = r.browser
    /\ _page' = r.page
    /\ _session' = r.session
    /\ _connect_url' = r.connect_url
    /\ created' = r.created
    /\ cdp_url' = r.cdp_url
    /\ url_from' = r.url_from
    /\ res' = r.res
    /\ run' = NextRun(op, session_link, r)
    /\ lastOp' = [op |-> op, session_link |-> session_link,
                  raised |-> r.exc, original |-> r.original,
                  status |-> r.status,
                  creates |-> r.creates, starts |-> r.starts,
                  acted |-> r.acted, acted_url |-> r.acted_url,
                  visited |-> r.visited,
                  td_ran |-> r.td_ran, td_failed |-> r.td_failed,
                  td_before |-> r.td_before, td_after |-> r.td_after,
                  pre |-> [session |-> _session],
                  prev_ok |-> lastOp.op \in PageOps /\ lastOp.raised = "None",
                  prev |-> Outcome(lastOp)]
    /\ UNCHANGED <<ctor, ddg, ode, callers, overlap>>

visit_url ==
    \E destination \in Destinations, session_link \in SessionLinks(_session), f \in Faults :
        \E r \in {visit_url_call(Self, destination, session_link, f)} :
            Commit("visit_url", session_link, r)

capture_screenshot ==
    \E session_link \in SessionLinks(_session), f \in Faults :
        \E r \in {capture_screenshot_call(Self, session_link, f)} :
            Commit("capture_screenshot", session_link, r)

fetch_page_html ==
    \E session_link \in SessionLinks(_session), f \in Faults :
        \E r \in {fetch_page_html_call(Self, session_link, f)} :
            Commit("fetch_page_html", session_link, r)

end_session ==
    \E f \in Faults :
        \E r \in {end_session_call(Self, f)} :
            Commit("end_session", NoUrl, r)

\* ----------------------------------------------------------- construction
\* An Optional[str]: None, the empty string, or a text.
PyNone == "<None>"
OptStr == {PyNone, "", "value"}

\* bool(v) of an Optional[str].
StrTruthy(v) == v # PyNone /\ v # ""

\* Python's  a or b.
Or(a, b) == IF StrTruthy(a) THEN a ELSE b

\* The keyword arguments of __init__, and what getenv returns for
\* BROWSERBASE_PROJECT_ID, BROWSERBASE_API_KEY and BROWSERBASE_BASE_URL.
Settings == [project_token : OptStr, auth_key : OptStr, api_endpoint : OptStr]

NoClient == [made |-> FALSE, api_key |-> PyNone, base_url |-> PyNone]

\* Before __init__ runs: no attribute is assigned, no client exists, and
\* self.register was not called.
NotConstructed(args, env) ==
    [pc |-> "new", args |-> args, env |-> env, raised |-> "None",
     auth_key |-> PyNone, project_token |-> PyNone, api_endpoint |-> PyNone,
     client |-> NoClient, registered |-> <<>>]

RegisteredTools ==
    <<"visit_url", "capture_screenshot", "fetch_page_html", "end_session">>

\* __init__ that builds the client before it checks the credentials.
__init___call_client_first(c) ==
    LET auth == Or(c.args.auth_key, c.env.auth_key)
        project == Or(c.args.project_token, c.env.project_token)
        endpoint == Or(c.args.api_endpoint, c.env.api_endpoint)
        c1 == [c EXCEPT !.auth_key = auth,
                        !.client = [made |-> TRUE, api_key |-> auth,
                                    base_url |-> PyNone]]
    IN  IF ~StrTruthy(auth)
        THEN [c1 EXCEPT !.pc = "raised",
                        !.raised = "Missing BROWSERBASE_API_KEY"]
        ELSE IF ~StrTruthy(project)
        THEN [c1 EXCEPT !.pc = "raised", !.project_token = project,
                        !.raised = "Missing BROWSERBASE_PROJECT_ID"]
        ELSE [c1 EXCEPT !.pc = "constructed", !.project_token = project,
                        !.api_endpoint = endpoint,
                        !.registered = RegisteredTools]

\* __init__: the values it assigns, the ValueError it raises, the client it
\* builds and the tools it registers.
__init___call(c) ==
    LET auth == Or(c.args.auth_key, c.env.auth_key)
        project == Or(c.args.project_token, c.env.project_token)
        endpoint == Or(c.args.api_endpoint, c.env.api_endpoint)
    IN  IF ~StrTruthy(auth)
        THEN [c EXCEPT !.pc = "raised", !.auth_key = auth,
                       !.raised = "Missing BROWSERBASE_API_KEY"]
        ELSE IF ~StrTruthy(project)
        THEN [c EXCEPT !.pc = "raised", !.auth_key = auth,
                       !.project_token = project,
                       !.raised = "Missing BROWSERBASE_PROJECT_ID"]
        ELSE [c EXCEPT !.pc = "constructed", !.auth_key = auth,
                       !.project_token = project, !.api_endpoint = endpoint,
                       !.client = [made |-> TRUE, api_key |-> auth,
                                   base_url |-> IF StrTruthy(endpoint)
                                                THEN endpoint ELSE PyNone],
                       !.registered = RegisteredTools]

\* BrowserbaseToolkit(...): lines 56-60 assign None to the five references,
\* the values they have in Idle; nothing else of the adapter is touched.
__init__ ==
    /\ ctor.pc = "new"
    /\ ctor' = __init___call(ctor)
    /\ UNCHANGED <<adapter_vars, ddg, ode, callers, overlap>>

\* -------------------------------------------------------- DuckDuckGoTools
\* A str is the sequence of its characters; an Optional value is a record.
NoneStr == [some |-> FALSE, v |-> <<>>]
SomeStr(text) == [some |-> TRUE, v |-> text]
NoneInt == [some |-> FALSE, v |-> 0]
SomeInt(n) == [some |-> TRUE, v |-> n]

\* bool(x) of an Optional[str] and of an Optional[int].
TruthyStr(x) == x.some /\ x.v # <<>>
TruthyInt(x) == x.some /\ x.v # 0

\* request_modifier and max_output as passed to DuckDuckGoTools(...).
Modifiers == {NoneStr, SomeStr(<<>>), SomeStr(<<"s", ":", "x">>)}
MaxOutputs == {NoneInt, SomeInt(0), SomeInt(2)}

\* keyword / topic and limit as passed to the two tools.
Texts == {<<"a">>, <<"a", " ", "b">>, <<"s", ":", "x", " ", "a">>}
Limits == {1, 5}

\* The f-string  f"{self.request_modifier} {keyword}".
FString(modifier, keyword) == modifier \o <<" ">> \o keyword

NoRequest ==
    [api |-> "none", keywords |-> <<>>, max_results |-> 0, text |-> <<>>,
     limit |-> 0]

\* search_duckduckgo: the call of DDGS.text it makes.
search_duckduckgo_call(self, keyword, limit) ==
    LET max_results == IF TruthyInt(self.max_output)
                       THEN self.max_output.v ELSE limit
        query == IF TruthyStr(self.request_modifier)
                 THEN FString(self.request_modifier.v, keyword) ELSE keyword
    IN  [api |-> "text", keywords |-> query, max_results |-> max_results,
         text |-> keyword, limit |-> limit]

\* fetch_duckduckgo_news: the call of DDGS.news it makes.
fetch_duckduckgo_news_call(self, topic, limit) ==
    LET total == IF TruthyInt(self.max_output)
                 THEN self.max_output.v ELSE limit
    IN  [api |-> "news", keywords |-> topic, max_results |-> total,
         text |-> topic, limit |-> limit]

search_duckduckgo ==
    /\ \E keyword \in Texts, limit \in Limits :
           ddg' = [ddg EXCEPT !.sent = search_duckduckgo_call(ddg, keyword, limit)]
    /\ UNCHANGED <<adapter_vars, ctor, ode, callers, overlap>>

fetch_duckduckgo_news ==
    /\ \E topic \in Texts, limit \in Limits :
           ddg' = [ddg EXCEPT !.sent = fetch_duckduckgo_news_call(ddg, topic, limit)]
    /\ UNCHANGED <<adapter_vars, ctor, ode, callers, overlap>>

\* DuckDuckGoTools(request_modifier=..., max_output=...) before any request.
DuckDuckGoTools(request_modifier, max_output) ==
    [request_modifier |-> request_modifier, max_output |-> max_output,
     sent |-> NoRequest]

\* ---------------------------------------------- DifferentialEquationTools
\* str.split(sep) for a one-character sep: the pieces between the separators.
RECURSIVE split(_, _)
split(text, sep) ==
    IF \A i \in 1..Len(text) : text[i] # sep
    THEN <<text>>
    ELSE LET i == CHOOSE k \in 1..Len(text) :
                      text[k] = sep /\ \A j \in 1..(k - 1) : text[j] # sep
         IN  <<SubSeq(text, 1, i - 1)>>
                 \o split(SubSeq(text, i + 1, Len(text)), sep)

\* str.strip(): without the blanks at both ends.
RECURSIVE strip(_)
strip(text) ==
    IF text = <<>> THEN text
    ELSE IF Head(text) = " " THEN strip(Tail(text))
    ELSE IF text[Len(text)] = " " THEN strip(SubSeq(text, 1, Len(text) - 1))
    ELSE text

\* The f-string  f"d{function}/d{variable}".
ExpectedLhs(function, variable) ==
    <<"d">> \o function \o <<"/", "d">> \o variable

\* Equations and initial conditions passed to solve_ode. An initial condition is None, or a dict: empty or not, with
\* each of "x0" and "y0" missing, a number, or a text float() rejects.
Equations ==
    {<<"d", "y", "/", "d", "x", " ", "=", " ", "x">>,
     <<" ", "d", "y", "/", "d", "x", "=", "x", " ">>,
     <<"d", "y", "/", "d", "x">>,
     <<"d", "y", "/", "d", "x", "=", "x", "=", "y">>,
     <<"y", "'", "=", "x">>,
     <<"d", "u", "/", "d", "t", "=", "u">>,
     <<"d", "y", "/", "d", "x", "=">>,
     <<"=">>,
     <<>>}
Floats == {"missing", "number", "text"}
InitialConditions ==
    {[dict |-> FALSE, empty |-> TRUE, x0 |-> "missing", y0 |-> "missing"],
     [dict |-> TRUE, empty |-> TRUE, x0 |-> "missing", y0 |-> "missing"]}
        \cup [dict : {TRUE}, empty : {FALSE}, x0 : Floats, y0 : Floats]

\* The sympy call that raises in this call of solve_ode, if any.
SympyFaults == {"None", "Symbol", "Function", "sympify", "dsolve"}

\* The arguments of solve_ode.
OdeInputs ==
    [equation : Equations, function : {<<"y">>, <<"u">>},
     variable : {<<"x">>, <<"t">>}, initial_condition : InitialConditions,
     fault : SympyFaults]

\* The body of the try block: the exception it raises ("None" = none), the
\* keys of the object it returns, and the calls of sp.dsolve it made.
solve_ode_try(in) ==
    LET pieces == split(in.equation, "=")
        lhs == strip(pieces[1])
        ic == in.initial_condition
        raise(e, n) == [exc |-> e, keys |-> {}, dsolve |-> n]
    IN  IF in.fault = "Symbol" THEN raise("Symbol", 0)
        ELSE IF in.fault = "Function" THEN raise("Function", 0)
        ELSE IF Len(pieces) # 2 THEN raise("unpack", 0)
        ELSE IF lhs # ExpectedLhs(in.function, in.variable)
        THEN [exc |-> "None", keys |-> {"error"}, dsolve |-> 0]
        ELSE IF in.fault = "sympify" THEN raise("sympify", 0)
        ELSE IF ic.dict /\ ~ic.empty /\ ic.x0 # "number" THEN raise("float", 0)
        ELSE IF ic.dict /\ ~ic.empty /\ ic.y0 # "number" THEN raise("float", 0)
        ELSE IF in.fault = "dsolve" THEN raise("dsolve", 1)
        ELSE [exc |-> "None", keys |-> {"operation", "solution"}, dsolve |-> 1]

\* solve_ode without its try / except.
solve_ode_call_unguarded(in) ==
    LET body == solve_ode_try(in)
    IN  [raised |-> body.exc, keys |-> body.keys, dsolve |-> body.dsolve]

\* solve_ode: what it raises, the keys of the JSON object it returns, and
\* the calls of sp.dsolve it made.
solve_ode_call(in) ==
    LET body == solve_ode_try(in)
    IN  IF body.exc # "None"
        THEN [raised |-> "None", keys |-> {"operation", "error"},
              dsolve |-> body.dsolve]
        ELSE [raised |-> "None", keys |-> body.keys, dsolve |-> body.dsolve]

NotCalled == [raised |-> "None", keys |-> {}, dsolve |-> 0]

solve_ode ==
    /\ ode.pc = "new"
    /\ ode' = [ode EXCEPT !.pc = "done", !.out = solve_ode_call(ode.in)]
    /\ UNCHANGED <<adapter_vars, ctor, ddg, callers, overlap>>

\* solve_ode not called yet, with the arguments it is going to get.
OdeCall(in) == [pc |-> "new", in |-> in, out |-> NotCalled]

\* ------------------------------------------------------ concurrent callers
\* Two callers share one adapter.  A caller is between calls ("idle") or
\* inside one, about to run the step its pc names; the steps are the
\* blocking calls of the private methods, each with the assignment of its
\* result, so that another caller can run between the test of a reference
\* and the call that fills it.  No collaborator fails here; an exception
\* arises only from a reference another caller cleared.
Callers == {1, 2}
Other(c) == 3 - c
NoCallers == [c \in Callers |-> [pc |-> "idle", op |-> "None", calls |-> 0]]
NoOverlap == [overlapped |-> FALSE, lost_sessions |-> 0, acted_torn |-> FALSE]

\* Where _start_browser goes after  if not self._playwright  (line 91)
\* when it attaches whatever the reference holds.
AfterEnsure_always_attaches(playwright) == "starting"

\* Where _start_browser goes after  if not self._playwright  (line 91).
AfterEnsure(playwright) == IF ~playwright THEN "starting" ELSE "action"

Goto(c, pc) == callers' = [callers EXCEPT ![c].pc = pc]

\* A caller enters a tool, without override URL.
call(c) ==
    /\ callers[c].pc = "idle"
    /\ callers[c].calls < MaxCalls
    /\ \E op \in PageOps \cup {"end_session"} :
           callers' = [callers EXCEPT ![c] =
                          [pc |-> IF op = "end_session" THEN "closing"
                                  ELSE "start_browser",
                           op |-> op, calls |-> @.calls + 1]]
    /\ overlap' = [overlap EXCEPT !.overlapped =
                       @ \/ callers[Other(c)].pc # "idle"]
    /\ UNCHANGED <<adapter_vars, ctor, ddg, ode>>

\* _start_browser lines 88-91 and _ensure_active_session line 69: the tests
\* that decide whether a session is created and whether an engine starts.
start_browser(c) ==
    /\ callers[c].pc = "start_browser"
    /\ Goto(c, IF ~Truthy(_connect_url) /\ _session = 0 THEN "creating"
               ELSE AfterEnsure(_playwright))
    /\ UNCHANGED <<adapter_vars, ctor, ddg, ode, overlap>>

\* Lines 71-72: sessions.create returns and the session and its connect URL
\* are assigned, over whatever another caller assigned meanwhile.
session_created(c) ==
    /\ callers[c].pc = "creating"
    /\ created < MaxCreate
    /\ created' = created + 1
    /\ _session' = created + 1
    /\ _connect_url' = ConnectUrlOf(created + 1)
    /\ url_from' = "session"
    /\ overlap' = [overlap EXCEPT !.lost_sessions =
                       IF _session # 0 THEN @ + 1 ELSE @]
    /\ Goto(c, AfterEnsure(_playwright))
    /\ UNCHANGED <<_playwright, _browser, _page, cdp_url, res, lastOp, run,
                   ctor, ddg, ode>>

\* Line 92: sync_playwright().start() returns and the engine is assigned.
engine_started(c) ==
    /\ callers[c].pc = "starting"
    /\ _playwright' = TRUE
    /\ res' = [res EXCEPT !.engines = @ + 1]
    /\ Goto(c, "connecting")
    /\ UNCHANGED <<_browser, _page, _session, _connect_url, created, cdp_url,
                   url_from, lastOp, run, ctor, ddg, ode, overlap>>

\* Lines 93-95: connect_over_cdp(self._connect_url) and the first page; with
\* the engine reference or the connect URL cleared by another caller the
\* line raises and the handler's except clause takes over.
browser_connected(c) ==
    /\ callers[c].pc = "connecting"
    /\ IF _playwright /\ Truthy(_connect_url)
       THEN /\ _browser' = TRUE
            /\ _page' = TRUE
            /\ cdp_url' = _connect_url
            /\ res' = [res EXCEPT !.browsers = @ + 1]
            /\ Goto(c, "action")
       ELSE /\ Goto(c, "closing")
            /\ UNCHANGED <<_browser, _page, cdp_url, res>>
    /\ UNCHANGED <<_playwright, _session, _connect_url, created, url_from,
                   lastOp, run, ctor, ddg, ode, overlap>>

\* The page action of the tool (goto, screenshot, content) under
\* "if self._page", and the return.
page_action(c) ==
    /\ callers[c].pc = "action"
    /\ overlap' = [overlap EXCEPT !.acted_torn =
                       @ \/ (_page /\ callers[Other(c)].pc
                                         \in {"stopping", "clearing"})]
    /\ Goto(c, "idle")
    /\ UNCHANGED <<adapter_vars, ctor, ddg, ode>>

\* _shutdown_browser lines 99-101.
browser_closed(c) ==
    /\ callers[c].pc = "closing"
    /\ IF _browser
       THEN _browser' = FALSE /\ res' = CloseInvoked(res, FALSE)
       ELSE UNCHANGED <<_browser, res>>
    /\ Goto(c, "stopping")
    /\ UNCHANGED <<_playwright, _page, _session, _connect_url, created,
                   cdp_url, url_from, lastOp, run, ctor, ddg, ode, overlap>>

\* _shutdown_browser lines 102-104.
engine_stopped(c) ==
    /\ callers[c].pc = "stopping"
    /\ IF _playwright
       THEN _playwright' = FALSE /\ res' = StopInvoked(res, FALSE)
       ELSE UNCHANGED <<_playwright, res>>
    /\ Goto(c, "clearing")
    /\ UNCHANGED <<_browser, _page, _session, _connect_url, created,
                   cdp_url, url_from, lastOp, run, ctor, ddg, ode, overlap>>

\* _shutdown_browser line 105, and what the handler does after it:
\* end_session clears the session and the connect URL (lines 187-188) and
\* returns, a page operation re-raises.
page_cleared(c) ==
    /\ callers[c].pc = "clearing"
    /\ _page' = FALSE
    /\ cdp_url' = NoUrl
    /\ IF callers[c].op = "end_session"
       THEN _session' = 0 /\ _connect_url' = NoUrl /\ url_from' = "init"
       ELSE UNCHANGED <<_session, _connect_url, url_from>>
    /\ Goto(c, "idle")
    /\ UNCHANGED <<_playwright, _browser, created, res, lastOp, run,
                   ctor, ddg, ode, overlap>>

\* The adapter as __init__ leaves it (lines 56-60): every reference is None.
Idle ==
    /\ _playwright = FALSE
    /\ _browser = FALSE
    /\ _page = FALSE
    /\ _session = 0
    /\ _connect_url = NoUrl
    /\ created = 0
    /\ cdp_url = NoUrl
    /\ url_from = "init"
    /\ res = [engines |-> 0, browsers |-> 0, stop_invoked |-> FALSE,
              close_invoked |-> FALSE]
    /\ run = [active |-> TRUE, started |-> FALSE, creates |-> 0, starts |-> 0]
    /\ lastOp = [op |-> "init", session_link |-> NoUrl, raised |-> "None",
                 original |-> "None", status |-> "None", creates |-> 0,
                 starts |-> 0, acted |-> FALSE, acted_url |-> NoUrl,
                 visited |-> "None",
                 td_ran |-> FALSE, td_failed |-> "None",
                 td_before |-> [session |-> 0, connect_url |-> NoUrl],
                 td_after |-> [session |-> 0, connect_url |-> NoUrl],
                 pre |-> [session |-> 0],
                 prev_ok |-> FALSE, prev |-> "init"]

\* A constructed adapter: both credentials were passed to __init__.
Constructed ==
    ctor = __init___call(NotConstructed(
               [project_token |-> "value", auth_key |-> "value",
                api_endpoint |-> PyNone],
               [project_token |-> PyNone, auth_key |-> PyNone,
                api_endpoint |-> PyNone]))

\* The other two toolkits, idle: DuckDuckGoTools() with its defaults, and
\* solve_ode about to get the equation of its docstring.
DuckDuckGoDefault == ddg = DuckDuckGoTools(NoneStr, NoneInt)
NotShared == callers = NoCallers /\ overlap = NoOverlap
SolveOdeDefault ==
    ode = OdeCall([equation |-> <<"d", "y", "/", "d", "x", " ", "=", " ", "x">>,
                   function |-> <<"y">>, variable |-> <<"x">>,
                   initial_condition |->
                       [dict |-> FALSE, empty |-> TRUE, x0 |-> "missing",
                        y0 |-> "missing"],
                   fault |-> "None"])

Init ==
    Idle /\ Constructed /\ DuckDuckGoDefault /\ SolveOdeDefault /\ NotShared

Next == visit_url \/ capture_screenshot \/ fetch_page_html \/ end_session

Spec == Init /\ [][Next]_vars

\* Construction alone, for every combination of arguments and environment.
InitCtor ==
    /\ Idle
    /\ ctor \in {NotConstructed(args, env) : args \in Settings, env \in Settings}
    /\ DuckDuckGoDefault
    /\ SolveOdeDefault
    /\ NotShared

NextCtor == __init__

SpecCtor == InitCtor /\ [][NextCtor]_vars

\* A DuckDuckGoTools of any settings, and the requests its two tools make.
InitDuckDuckGo ==
    /\ Idle
    /\ Constructed
    /\ ddg \in {DuckDuckGoTools(m, n) : m \in Modifiers, n \in MaxOutputs}
    /\ SolveOdeDefault
    /\ NotShared

NextDuckDuckGo == search_duckduckgo \/ fetch_duckduckgo_news

SpecDuckDuckGo == InitDuckDuckGo /\ [][NextDuckDuckGo]_vars

\* One call of solve_ode, for every combination of arguments.
InitOde ==
    /\ Idle
    /\ Constructed
    /\ DuckDuckGoDefault
    /\ ode \in {OdeCall(in) : in \in OdeInputs}
    /\ NotShared

NextOde == solve_ode

SpecOde == InitOde /\ [][NextOde]_vars

\* Two callers on one constructed adapter, their steps interleaved.
NextShared ==
    \E c \in Callers :
        \/ call(c)
        \/ start_browser(c)
        \/ session_created(c)
        \/ engine_started(c)
        \/ browser_connected(c)
        \/ page_action(c)
        \/ browser_closed(c)
        \/ engine_stopped(c)
        \/ page_cleared(c)

SpecShared == Init /\ [][NextShared]_vars

\* ---------------------------------------------------------------- claims
HandleCleared == ~_playwright /\ ~_browser /\ ~_page
SessionCleared == _session = 0 /\ _connect_url = NoUrl
FalsyLink == ~Truthy(lastOp.session_link)
PageOpRaised == lastOp.op \in PageOps /\ lastOp.raised # "None"
PageOpReturned == lastOp.op \in PageOps /\ lastOp.raised = "None"

\* C1: after every end_session call, whatever it returned, the session
\* reference and connect URL are None and so are the engine, browser and
\* page references.
C1_EndSessionClearsAll ==
    lastOp.op = "end_session" => SessionCleared /\ HandleCleared

\* C2: end_session never raises; it returns status "session_closed" or
\* "warning", and "warning" exactly when close() or stop() raised.
C2_EndSessionNeverRaises ==
    lastOp.op = "end_session" =>
        /\ lastOp.raised = "None"
        /\ lastOp.status \in {"session_closed", "warning"}
        /\ (lastOp.status = "warning") = (lastOp.td_failed # "None")

\* C2 witness: an end_session whose engine.stop() raised returned "warning".
C2_Witness ==
    /\ lastOp.op = "end_session"
    /\ lastOp.td_failed = "stop"
    /\ lastOp.status = "warning"

\* C3: when a page operation raises, the engine, browser and page
\* references are all None once the exception reaches the caller.
C3_RaisedPageOpClearsHandle ==
    PageOpRaised => HandleCleared

\* C4: a page operation that raises leaves the session reference it found;
\* a held session reference is cleared by end_session only; and
\* _shutdown_browser leaves session reference and connect URL as they were.
C4_SessionSurvivesFailure ==
    /\ (PageOpRaised /\ lastOp.pre.session # 0 => _session = lastOp.pre.session)
    /\ (lastOp.pre.session # 0 /\ _session # lastOp.pre.session =>
            lastOp.op = "end_session" /\ _session = 0)
    /\ (lastOp.td_ran => lastOp.td_after = lastOp.td_before)

\* C4 witness: a page operation raised while a session was held, and its
\* handler ran _shutdown_browser.
C4_Witness ==
    /\ PageOpRaised
    /\ lastOp.pre.session # 0
    /\ lastOp.td_ran
    /\ _session = lastOp.pre.session

\* C5: the exception a failing page operation hands its caller is the one
\* the failing step raised, after _shutdown_browser ran.
C5_OriginalExceptionSurfaces ==
    PageOpRaised => lastOp.td_ran /\ lastOp.raised = lastOp.original

\* C6: a visit_url that returns "success" performed page.goto on the
\* destination, and a capture_screenshot that returns "screenshot_taken"
\* performed page.screenshot.
C6_NoSilentSuccess ==
    /\ (lastOp.status = "success" => lastOp.acted /\ lastOp.visited # "None")
    /\ (lastOp.status = "screenshot_taken" => lastOp.acted)

\* C7: the browser held is connected to the adapter's current connect URL,
\* and a page operation given an override URL acts on a page connected to
\* that URL.
C7_HandleBoundToCurrentUrl ==
    /\ (_browser => cdp_url = _connect_url)
    /\ (lastOp.op \in PageOps /\ ~FalsyLink /\ lastOp.acted =>
            lastOp.acted_url = lastOp.session_link)

\* C8: in a run of successful page operations without override URL that
\* starts at an idle adapter, sessions.create is called exactly once and the
\* engine is started exactly once; a successful page operation without
\* override URL that follows a successful page operation calls neither.
C8_SessionAndHandleReuse ==
    /\ (run.active /\ run.started => run.creates = 1 /\ run.starts = 1)
    /\ (PageOpReturned /\ FalsyLink /\ lastOp.prev_ok =>
            lastOp.creates = 0 /\ lastOp.starts = 0)

\* C8 witness: a capture_screenshot without override URL succeeded as the
\* second or later call of such a run.
C8_Witness ==
    /\ run.active /\ run.started
    /\ lastOp.op = "capture_screenshot"
    /\ lastOp.status = "screenshot_taken"
    /\ lastOp.prev_ok
    /\ lastOp.acted

\* C9: a page operation given a non-empty override URL never calls
\* sessions.create.
C9_OverrideBypassesCreate ==
    lastOp.op \in PageOps /\ ~FalsyLink => lastOp.creates = 0

\* C9 witness: a page operation with an override URL acted on a page while
\* the adapter held no session before and holds none after.
C9_Witness ==
    /\ PageOpReturned
    /\ ~FalsyLink
    /\ lastOp.pre.session = 0
    /\ _session = 0
    /\ lastOp.acted

\* C10 as claimed: no engine, browser or page reference is held while no
\* session reference is held.
C10_NoHandleWithoutSession ==
    _session = 0 => HandleCleared

\* C10 as amended: a handle reference is held only with a non-empty connect
\* URL, a session reference only with a non-empty connect URL, and a handle
\* reference without session reference only when the connect URL was given
\* as an override.
C10_NoHandleWithoutUrl ==
    /\ (~HandleCleared => Truthy(_connect_url))
    /\ (_session # 0 => Truthy(_connect_url))
    /\ (_session = 0 /\ ~HandleCleared => url_from = "override")
    /\ (url_from = "session" =>
            _session # 0 /\ _connect_url = ConnectUrlOf(_session))

\* C10 witness: a full handle is attached to an override URL and no session
\* reference is held.
C10_Witness ==
    /\ _session = 0
    /\ _playwright /\ _browser /\ _page
    /\ url_from = "override"
    /\ cdp_url = _connect_url

\* C11: _shutdown_browser never raises and leaves the engine, browser and
\* page references all None, also when close() or stop() raises.
C11_ShutdownNeverRaises ==
    lastOp.td_ran => lastOp.td_failed = "None" /\ HandleCleared

\* C13: a sessions.create that raises reaches the caller of the page
\* operation as that exception, and leaves the adapter without session
\* reference and without connect URL; the next page operation without
\* override URL calls sessions.create again.
C13_CreateFailureSurfaces ==
    /\ (lastOp.creates > 0 /\ _session = 0 =>
            /\ lastOp.original = "create"
            /\ lastOp.raised = "create"
            /\ _connect_url = NoUrl
            /\ HandleCleared)
    /\ (lastOp.op \in PageOps /\ FalsyLink /\ lastOp.prev = "create_raised" =>
            /\ lastOp.creates = 1
            /\ (_browser => _session # 0 /\ cdp_url = ConnectUrlOf(_session)))

\* C13 witness: a page operation raised the exception of sessions.create
\* and the adapter holds neither session reference nor connect URL.
C13_Witness ==
    /\ PageOpRaised
    /\ lastOp.creates = 1
    /\ lastOp.raised = "create"
    /\ _session = 0
    /\ _connect_url = NoUrl

\* C14: after a page operation raised while a session was held, the next
\* page operation without override URL calls sessions.create not at all,
\* starts an engine, and connects it to the connect URL of that session.
C14_SelfHealingReattach ==
    lastOp.op \in PageOps /\ FalsyLink /\ lastOp.prev = "raised"
        /\ lastOp.pre.session # 0 =>
        /\ lastOp.creates = 0
        /\ lastOp.starts = 1
        /\ (_browser => cdp_url = ConnectUrlOf(lastOp.pre.session))

\* C15: an end_session that returned "session_closed" leaves the adapter as
\* constructed, and the page operation without override URL that follows
\* calls sessions.create, and when it returns it has started an engine and
\* connected it to the connect URL of the session just created.
C15_FreshAfterSessionClosed ==
    /\ (lastOp.status = "session_closed" =>
            SessionCleared /\ HandleCleared /\ cdp_url = NoUrl)
    /\ (lastOp.op \in PageOps /\ FalsyLink /\ lastOp.prev = "session_closed" =>
            /\ lastOp.creates = 1
            /\ (_browser => _session = created
                            /\ cdp_url = ConnectUrlOf(created))
            /\ (lastOp.raised = "None" =>
                    /\ lastOp.starts = 1
                    /\ _session = created
                    /\ _connect_url = ConnectUrlOf(created)
                    /\ lastOp.acted_url = ConnectUrlOf(created)))

\* C15 witness: a page operation without override URL returned right after
\* an end_session that closed a session of this adapter, and holds the
\* adapter's second session.
C15_Witness ==
    /\ PageOpReturned
    /\ FalsyLink
    /\ lastOp.prev = "session_closed"
    /\ _session = 2
    /\ lastOp.acted

\* C19: between operations the engine, browser and page references are all
\* held or all None, and a page operation that returns after its page action
\* ran it on a page whose browser reference is held.
C19_HandleAllOrNothing ==
    /\ _playwright = _browser
    /\ _browser = _page
    /\ (PageOpReturned /\ lastOp.acted => _browser)

\* C20: every engine started and every browser connected on which stop() /
\* close() was never invoked is the one the adapter references, so there is
\* at most one of each; and sessions.create is called only while no session
\* reference is held.
C20_NoLeak ==
    /\ res.engines = IF _playwright /\ ~res.stop_invoked THEN 1 ELSE 0
    /\ res.browsers = IF _browser /\ ~res.close_invoked THEN 1 ELSE 0
    /\ (res.stop_invoked => _playwright)
    /\ (res.close_invoked => _browser)
    /\ (lastOp.creates > 0 => lastOp.creates = 1 /\ lastOp.pre.session = 0)

\* C20 witness: a second engine is referenced after the first one was
\* stopped, and its stop() was invoked and raised.
C20_Witness ==
    /\ lastOp.prev = "raised"
    /\ lastOp.starts = 1
    /\ lastOp.td_failed = "stop"
    /\ _playwright
    /\ res.stop_invoked
    /\ res.engines = 0

\* C12: when the authentication key or the project identifier has neither an
\* explicit value nor an environment variable, __init__ raises ValueError, no
\* client is built or called, no engine is started and no tool is registered.
C12_MissingCredentialsFatal ==
    LET no_auth == ctor.args.auth_key = PyNone /\ ctor.env.auth_key = PyNone
        no_project == ctor.args.project_token = PyNone
                          /\ ctor.env.project_token = PyNone
    IN  ctor.pc # "new" /\ (no_auth \/ no_project) =>
            /\ ctor.pc = "raised"
            /\ ctor.raised \in {"Missing BROWSERBASE_API_KEY",
                               "Missing BROWSERBASE_PROJECT_ID"}
            /\ (no_auth => ctor.raised = "Missing BROWSERBASE_API_KEY")
            /\ ctor.client = NoClient
            /\ created = 0
            /\ res.engines = 0 /\ ~_playwright
            /\ ctor.registered = <<>>

\* C12 witness: the key is present and the project identifier is missing, so
\* the second check is the one that raised.
C12_Witness ==
    /\ ctor.pc = "raised"
    /\ StrTruthy(ctor.env.auth_key)
    /\ ctor.args.project_token = PyNone /\ ctor.env.project_token = PyNone
    /\ ctor.raised = "Missing BROWSERBASE_PROJECT_ID"

\* q contains the text m.
Contains(q, m) ==
    \E i \in 1..(Len(q) - Len(m) + 1) : SubSeq(q, i, i + Len(m) - 1) = m

\* C17: with a non-empty request_modifier, the query either tool sends to
\* DDGS contains the modifier together with the caller's text; with no
\* modifier the caller's text is sent unchanged.
C17_ModifierAppliedToEachQuery ==
    ddg.sent.api # "none" =>
        IF TruthyStr(ddg.request_modifier)
        THEN /\ Contains(ddg.sent.keywords, ddg.request_modifier.v)
             /\ Contains(ddg.sent.keywords, ddg.sent.text)
             /\ Len(ddg.sent.keywords)
                    > Len(ddg.request_modifier.v) + Len(ddg.sent.text)
        ELSE ddg.sent.keywords = ddg.sent.text

\* C18: solve_ode never raises; the object it returns has exactly one of
\* "solution" and "error"; and when the equation does not split at one "="
\* into a left-hand side equal to d<function>/d<variable>, it returns an
\* error and sp.dsolve is not invoked.
C18_SolveOdeNeverRaises ==
    LET pieces == split(ode.in.equation, "=")
        lhs_ok == /\ Len(pieces) = 2
                  /\ strip(pieces[1])
                         = ExpectedLhs(ode.in.function, ode.in.variable)
    IN  ode.pc = "done" =>
            /\ ode.out.raised = "None"
            /\ ("solution" \in ode.out.keys) # ("error" \in ode.out.keys)
            /\ (~lhs_ok => "error" \in ode.out.keys /\ ode.out.dsolve = 0)

\* C18 witness: an equation with two "=" signs was answered with an error
\* object, without a call of the solver.
C18_Witness ==
    /\ ode.pc = "done"
    /\ Len(split(ode.in.equation, "=")) = 3
    /\ ode.in.fault = "None"
    /\ ode.out.keys = {"operation", "error"}
    /\ ode.out.dsolve = 0

\* A session reference was overwritten, an engine or a browser is neither
\* referenced nor shut down, or a page action ran while another caller was
\* inside _shutdown_browser with the browser already closed.
Race ==
    \/ overlap.lost_sessions > 0
    \/ res.engines > (IF _playwright THEN 1 ELSE 0)
    \/ res.browsers > (IF _browser THEN 1 ELSE 0)
    \/ overlap.acted_torn

\* C16: a race state arises only in a run in which two calls overlapped;
\* with the calls serialized none is reachable.
C16_RaceOnlyWhenInterleaved == Race => overlap.overlapped

\* C16 witness: two interleaved callers have overwritten a session, leaked
\* an engine, and acted on a page whose browser the other had closed.
C16_Witness ==
    /\ overlap.overlapped
    /\ overlap.lost_sessions > 0
    /\ res.engines > (IF _playwright THEN 1 ELSE 0)
    /\ overlap.acted_torn

====
